---------------------------- MODULE Spec2Model ----------------------------
(***************************************************************************)
(* Docprompt: the Google Document AI provider's chunked execution          *)
(* (service_providers/google_docai.py).  A document is split into chunks,  *)
(* every chunk is sent to the backend from a thread pool under a tenacity  *)
(* retry policy, the answers are collected into a slot list and the list   *)
(* is recombined into page results.                                        *)
(*                                                                         *)
(* Python lists are sequences: the Python index k is the index k + 1 here. *)
(* Python values are records with a "type" field.                          *)
(***************************************************************************)
EXTENDS Integers, Sequences, FiniteSets, TLC

\* ------------------------------------------------------------------ bounds
MaxChunks == 3          \* chunks of the executed documents
MaxWorkers == 2         \* values of the provider's max_workers
MaxUnits == 4           \* units of the planned documents
MaxUnitSize == 3        \* byte size of one unit of a planned document
MaxUnitsLimit == 3      \* values of max_page_count given to the planner
MaxBytesLimit == 4      \* values of max_bytes given to the planner
MaxMergeDocs == 3       \* chunk results given to the merge
MaxMergePages == 3      \* pages of one chunk result given to the merge
MaxSubclasses == 2      \* subclasses defined under a decorated class
MaxCalls == 3           \* calls of process_document_node on one document
MaxNodePages == 2       \* pages of the document node

\* ------------------------------------------------------- program constants
max_bytes_per_request == 20971520
max_page_count == 15
MB == 1048576
stop_after_attempt == 10
wait_multiplier == 1
wait_max == 60
wait_exp_base == 2

VARIABLES
    file_bytes,           \* the document: the byte size of each of its units
    self_max_workers,     \* self.max_workers
    pc,                   \* position of _process_document_concurrent
    document_byte_splits, \* the planned chunks
    max_workers,          \* size of the thread pool
    futures,              \* one future per submitted chunk
    documents,            \* the slot list
    pending_exc,          \* exception propagating out of the with block
    collect_order,        \* indices in the order as_completed yielded them
    merge_arg,            \* the list handed to gcp_documents_to_result
    result,               \* what _process_document_concurrent returned or raised
    plan_in,              \* planner run: its arguments
    plan_out,             \* planner run: the chunks it yielded
    merge_in,             \* merge run: the chunk results
    merge_out,            \* merge run: what the entry point returned or raised
    method_groups,        \* the groups given to flexible_methods
    classes,              \* the classes defined so far, the decorated one first
    class_error,          \* the TypeError that ended a class definition
    document_node,        \* the document graph: page nodes and document metadata
    clock,                \* number of process_document_node calls made
    last_call,            \* the last process_document_node call and its outcome
    latest                \* per scope and key, the result contributed last

execVars == <<file_bytes, self_max_workers, pc, document_byte_splits, max_workers,
              futures, documents, pending_exc, collect_order, merge_arg, result>>
planVars == <<plan_in, plan_out>>
mergeVars == <<merge_in, merge_out>>
classVars == <<method_groups, classes, class_error>>
nodeVars == <<document_node, clock, last_call, latest>>
otherVars == <<classVars, nodeVars>>
vars == <<execVars, planVars, mergeVars, classVars, nodeVars>>

None == [type |-> "NoneType"]

Min(a, b) == IF a <= b THEN a ELSE b

RECURSIVE Pow(_, _)
Pow(b, e) == IF e = 0 THEN 1 ELSE b * Pow(b, e - 1)

RECURSIVE SumSeq(_)
SumSeq(s) == IF s = <<>> THEN 0 ELSE Head(s) + SumSeq(Tail(s))

\* ----------------------------------------------------------- chunk planner
\* docprompt.utils.splitter.pdf_split_iter_with_max_bytes is not part of the
\* sources at hand; it is modelled from its contract (spec section 4.3).
\* A chunk is its unit range (0-based start, count) and its byte length.
EmptyChunk == [start |-> 0, count |-> 0, bytes |-> 0]

\* variant: the unit bound is tested on the chunk as it is
WouldExceedCountLate(cur, size, max_units, max_bytes) ==
    \/ cur.count > max_units
    \/ cur.bytes + size > max_bytes

\* variant: the byte bound is tested on the chunk as it is
WouldExceedBytesLate(cur, size, max_units, max_bytes) ==
    \/ cur.count + 1 > max_units
    \/ cur.bytes > max_bytes

\* adding a unit of the given size to chunk cur would exceed a bound
WouldExceed(cur, size, max_units, max_bytes) ==
    \/ cur.count + 1 > max_units
    \/ cur.bytes + size > max_bytes

RECURSIVE PlanLoop(_, _, _, _, _, _)
PlanLoop(units, i, cur, out, max_units, max_bytes) ==
    IF i > Len(units)
    THEN IF cur.count > 0 THEN Append(out, cur) ELSE out
    ELSE IF cur.count > 0 /\ WouldExceed(cur, units[i], max_units, max_bytes)
         THEN PlanLoop(units, i + 1,
                       [start |-> i - 1, count |-> 1, bytes |-> units[i]],
                       Append(out, cur), max_units, max_bytes)
         ELSE PlanLoop(units, i + 1,
                       [cur EXCEPT !.count = @ + 1, !.bytes = @ + units[i]],
                       out, max_units, max_bytes)

\* variant: the two limits are passed in each other's place
pdf_split_iter_limits_swapped(units, max_units, max_bytes) ==
    PlanLoop(units, 1, EmptyChunk, <<>>, max_bytes, max_units)

pdf_split_iter_with_max_bytes(units, max_units, max_bytes) ==
    PlanLoop(units, 1, EmptyChunk, <<>>, max_units, max_bytes)

\* ------------------------------------------------------------ result merge
PyList(items) == [type |-> "list", items |-> items]

\* the backend's answer for a document of the given number of pages, tagged
\* with the first unit of the chunk it was computed from
Document(start, pages) == [type |-> "Document", start |-> start, pages |-> pages]

Raised(exc) == [kind |-> "raised", value |-> exc]
Returned(value) == [kind |-> "returned", value |-> value]
NoResult == [kind |-> "none", value |-> None]

Unbound == -1   \* doc_page_num before the first page of the first document

\* process_page keeps the page number it is given
process_page(doc_page_num) == [type |-> "PageResult", page_number |-> doc_page_num]

\* variant: the pages of every document are numbered from 1
DocumentPageResultsLocal(document, page_offset) ==
    [k \in 1 .. document.pages |-> process_page(k)]

\* page results of the inner loop over enumerate(document.pages)
DocumentPageResults(document, page_offset) ==
    [k \in 1 .. document.pages |-> process_page(page_offset + (k - 1))]

\* doc_page_num after the inner loop: the last index enumerated, or the
\* value it had before when the document has no page
LastPageNum(document, doc_page_num) ==
    IF document.pages > 0 THEN document.pages - 1 ELSE doc_page_num

RECURSIVE SingleLoop(_, _, _, _, _)
SingleLoop(docs, k, page_offset, doc_page_num, page_results) ==
    IF k > Len(docs)
    THEN Returned([type |-> "ProviderResult", page_results |-> page_results])
    ELSE LET last == LastPageNum(docs[k], doc_page_num) IN
         IF last = Unbound
         THEN Raised([type |-> "UnboundLocalError"])
         ELSE SingleLoop(docs, k + 1, page_offset + last + 1, last,
                         page_results \o DocumentPageResults(docs[k], page_offset))

gcp_documents_to_result_single(docs) ==
    IF docs.type # "list"
    THEN Raised([type |-> "TypeError"])   \* a Document is not iterable
    ELSE SingleLoop(docs.items, 1, 1, Unbound, <<>>)

\* the dispatch always takes the single-process branch, with documents[0]
gcp_documents_to_result(docs) ==
    gcp_documents_to_result_single(docs[1])

PageNumbers(res) == [k \in DOMAIN res.value.page_results |-> res.value.page_results[k].page_number]

\* ------------------------------------------------------------ retry policy
\* default_retry_decorator = retry(wait=wait_exponential(multiplier=1, max=60),
\*                                 stop=stop_after_attempt(10))
ExceptionKinds == {"transient", "permanent"}

\* no retry= argument is given: every exception is retried
retry_predicate(kind) == TRUE

\* stop_after_attempt(10)
stop_predicate(attempt_number) == attempt_number >= stop_after_attempt

\* variant: the exponent is the attempt number itself
wait_exponential_from_two(attempt_number) ==
    Min(wait_multiplier * Pow(wait_exp_base, attempt_number), wait_max)

\* variant: the exponential wait without its cap
wait_exponential_uncapped(attempt_number) ==
    wait_multiplier * Pow(wait_exp_base, attempt_number - 1)

\* wait_exponential(multiplier=1, max=60), seconds slept after the given attempt
wait_exponential(attempt_number) ==
    Min(wait_multiplier * Pow(wait_exp_base, attempt_number - 1), wait_max)

NewRetryState == [attempt_number |-> 1, idle_for |-> 0, upcoming_sleep |-> 0,
                  last_exception |-> "none"]
NoRetryState == [attempt_number |-> 0, idle_for |-> 0, upcoming_sleep |-> 0,
                 last_exception |-> "none"]

\* variant: the last attempt's exception is re-raised as it is (reraise=True)
RetryErrorReraise(retry_state, kind) == [type |-> kind]

\* the exception a call gives up with after its last attempt
RetryError(retry_state, kind) ==
    [type |-> "RetryError",
     last_attempt |-> [attempt_number |-> retry_state.attempt_number, exception |-> kind]]

BackendError(kind) == [type |-> kind]

IsException(v) == v.type \in {"RetryError", "TypeError", "ValueError", "UnboundLocalError"} \cup ExceptionKinds

\* ------------------------------------------------------- concurrent executor
Chunks == 0 .. Len(document_byte_splits) - 1

split_of(index) == document_byte_splits[index + 1]

\* client.process_document answering the request of one chunk
BackendDocument(split) == Document(split.start, split.count)

Running == {i \in DOMAIN futures : futures[i].state = "RUNNING"}
Pending == {i \in DOMAIN futures : futures[i].state = "PENDING"}
Finished == {i \in DOMAIN futures : futures[i].state = "FINISHED"}
Yielded == {collect_order[k] : k \in DOMAIN collect_order}

NewFuture == [state |-> "NEW", retry_state |-> NoRetryState, outcome |-> None]

\* variant: one pool thread per chunk
PoolSizePerChunk(chunk_count, workers) == chunk_count

\* line 437: the size of the thread pool
PoolSize(chunk_count, workers) == Min(chunk_count, workers)

\* lines 421-460: plan the chunks, size the pool
Split ==
    /\ pc = "split"
    /\ LET splits == pdf_split_iter_with_max_bytes(file_bytes, max_page_count,
                                                   max_bytes_per_request)
           workers == PoolSize(Len(splits), self_max_workers)
       IN /\ document_byte_splits' = splits
          /\ max_workers' = workers
          /\ futures' = [i \in 0 .. Len(splits) - 1 |-> NewFuture]
          /\ IF workers <= 0
             THEN /\ pc' = "done"
                  /\ result' = Raised([type |-> "ValueError"])
             ELSE /\ pc' = "submit"
                  /\ UNCHANGED result
    /\ UNCHANGED <<file_bytes, self_max_workers, documents, pending_exc,
                   collect_order, merge_arg>>
    /\ UNCHANGED <<planVars, mergeVars, otherVars>>

\* lines 461-466: executor.submit of the next chunk; after the last one the
\* slot list is created
Submit(index) ==
    /\ pc = "submit"
    /\ index \in Chunks
    /\ futures[index].state = "NEW"
    /\ \A j \in Chunks : j < index => futures[j].state # "NEW"
    /\ futures' = [futures EXCEPT ![index].state = "PENDING"]
    /\ IF index = Len(document_byte_splits) - 1
       THEN /\ pc' = "collect"
            /\ documents' = [k \in 1 .. Len(document_byte_splits) |-> None]
       ELSE UNCHANGED <<pc, documents>>
    /\ UNCHANGED <<file_bytes, self_max_workers, document_byte_splits, max_workers,
                   pending_exc, collect_order, merge_arg, result>>
    /\ UNCHANGED <<planVars, mergeVars, otherVars>>

\* a pool thread takes the oldest queued work item
Start(index) ==
    /\ index \in Pending
    /\ \A j \in Pending : index <= j
    /\ Cardinality(Running) < max_workers
    /\ futures' = [futures EXCEPT ![index].state = "RUNNING",
                                  ![index].retry_state = NewRetryState]
    /\ UNCHANGED <<file_bytes, self_max_workers, pc, document_byte_splits, max_workers,
                   documents, pending_exc, collect_order, merge_arg, result>>
    /\ UNCHANGED <<planVars, mergeVars, otherVars>>

\* lines 439-456: an attempt of process_byte_chunk returns the document
CallReturns(index) ==
    /\ index \in Running
    /\ futures' = [futures EXCEPT ![index] =
                      [state |-> "FINISHED", retry_state |-> NoRetryState,
                       outcome |-> BackendDocument(split_of(index))]]
    /\ UNCHANGED <<file_bytes, self_max_workers, pc, document_byte_splits, max_workers,
                   documents, pending_exc, collect_order, merge_arg, result>>
    /\ UNCHANGED <<planVars, mergeVars, otherVars>>

\* what the retry policy does with a failed attempt
AfterFailure(future, kind) ==
    LET rs == future.retry_state IN
    IF ~retry_predicate(kind)
    THEN [state |-> "FINISHED", retry_state |-> NoRetryState,
          outcome |-> BackendError(kind)]
    ELSE IF stop_predicate(rs.attempt_number)
    THEN [state |-> "FINISHED", retry_state |-> NoRetryState,
          outcome |-> RetryError(rs, kind)]
    ELSE [state |-> "RUNNING",
          retry_state |-> [attempt_number |-> rs.attempt_number + 1,
                           idle_for |-> rs.idle_for + wait_exponential(rs.attempt_number),
                           upcoming_sleep |-> wait_exponential(rs.attempt_number),
                           last_exception |-> kind],
          outcome |-> None]

\* lines 439-456 under line 36: an attempt of process_byte_chunk raises
CallRaises(index, kind) ==
    /\ index \in Running
    /\ futures' = [futures EXCEPT ![index] = AfterFailure(futures[index], kind)]
    /\ UNCHANGED <<file_bytes, self_max_workers, pc, document_byte_splits, max_workers,
                   documents, pending_exc, collect_order, merge_arg, result>>
    /\ UNCHANGED <<planVars, mergeVars, otherVars>>

\* variant: documents[index] = future.exception() or future.result()
CollectStepKeepSlot(docs, index, outcome) ==
    [documents |-> [docs EXCEPT ![index + 1] = outcome],
     pending_exc |-> None, leave |-> FALSE]

\* variant: results are stored in the order they arrive
CollectStepAppend(docs, index, outcome) ==
    IF IsException(outcome)
    THEN [documents |-> docs, pending_exc |-> outcome, leave |-> TRUE]
    ELSE LET free == CHOOSE k \in DOMAIN docs :
                        docs[k] = None /\ \A j \in 1 .. k - 1 : docs[j] # None
         IN [documents |-> [docs EXCEPT ![free] = outcome],
             pending_exc |-> None, leave |-> FALSE]

\* variant: a failed future is skipped and the loop goes on
CollectStepSkipFailed(docs, index, outcome) ==
    IF IsException(outcome)
    THEN [documents |-> docs, pending_exc |-> None, leave |-> FALSE]
    ELSE [documents |-> [docs EXCEPT ![index + 1] = outcome],
          pending_exc |-> None, leave |-> FALSE]

\* what one round of the as_completed loop does with a finished future
CollectStep(docs, index, outcome) ==
    IF IsException(outcome)
    THEN [documents |-> docs, pending_exc |-> outcome, leave |-> TRUE]
    ELSE [documents |-> [docs EXCEPT ![index + 1] = outcome],
          pending_exc |-> None, leave |-> FALSE]

\* lines 468-471: as_completed yields a finished future
Collect(index) ==
    /\ pc = "collect"
    /\ index \in Finished \ Yielded
    /\ LET step == CollectStep(documents, index, futures[index].outcome) IN
       /\ documents' = step.documents
       /\ pending_exc' = step.pending_exc
       /\ collect_order' = Append(collect_order, index)
       /\ pc' = IF step.leave \/ Len(collect_order) + 1 = Len(document_byte_splits)
                THEN "exit_with" ELSE "collect"
    /\ UNCHANGED <<file_bytes, self_max_workers, document_byte_splits, max_workers,
                   futures, merge_arg, result>>
    /\ UNCHANGED <<planVars, mergeVars, otherVars>>

\* variant: executor.shutdown(wait=False)
shutdown_no_wait == TRUE

\* line 460: ThreadPoolExecutor.__exit__ is shutdown(wait=True): it returns
\* when every submitted call, queued ones included, has finished
shutdown_wait == \A i \in Chunks : futures[i].state = "FINISHED"

\* lines 460, 473-474: leaving the with block joins the pool threads; then the
\* pending exception propagates or the slot list is recombined
ExitWith ==
    /\ pc = "exit_with"
    /\ shutdown_wait
    /\ pc' = "done"
    /\ IF pending_exc # None
       THEN /\ result' = Raised(pending_exc)
            /\ UNCHANGED merge_arg
       ELSE /\ merge_arg' = PyList(documents)
            /\ result' = gcp_documents_to_result(documents)
    /\ UNCHANGED <<file_bytes, self_max_workers, document_byte_splits, max_workers,
                   futures, documents, pending_exc, collect_order>>
    /\ UNCHANGED <<planVars, mergeVars, otherVars>>

NoPlanRun == [units |-> <<>>, max_units |-> 0, max_bytes |-> 0]
NoMergeRun == [fn |-> "none", result |-> NoResult]

\* variant: documents.insert(0, document)
SyncAppendFront(docs, document) == <<document>> \o docs

\* line 413: documents.append(document)
SyncAppend(docs, document) == Append(docs, document)

\* lines 409-415: the loop of _process_document_sync over the chunks; the
\* retried call of chunk number failing (if any) gives up, the calls before
\* it return
RECURSIVE SyncLoop(_, _, _, _)
SyncLoop(splits, failing, k, docs) ==
    IF k > Len(splits)
    THEN [documents |-> docs, exc |-> None]
    ELSE IF k = failing
    THEN [documents |-> docs, exc |-> RetryError([attempt_number |-> stop_after_attempt],
                                                 "transient")]
    ELSE SyncLoop(splits, failing, k + 1, SyncAppend(docs, BackendDocument(splits[k])))

\* lines 378-419: _process_document_sync on the same bytes, after the
\* concurrent run; merge_in is the list it hands to the merge step
ProcessDocumentSync ==
    /\ pc = "done"
    /\ merge_out = NoMergeRun
    /\ LET splits == pdf_split_iter_with_max_bytes(file_bytes, max_page_count,
                                                   max_bytes_per_request)
       IN \E failing \in 0 .. Len(splits) :
            LET loop == SyncLoop(splits, failing, 1, <<>>)
            IN IF loop.exc # None
               THEN /\ merge_in' = <<>>
                    /\ merge_out' = [fn |-> "_process_document_sync",
                                     result |-> Raised(loop.exc)]
               ELSE /\ merge_in' = loop.documents
                    /\ merge_out' = [fn |-> "_process_document_sync",
                                     result |-> gcp_documents_to_result(loop.documents)]
    /\ UNCHANGED <<execVars, planVars, otherVars>>

\* the executed documents: units of 1 MB, so that the page limit decides
UniformFile(pages) == [k \in 1 .. pages |-> MB]

FilePageCounts ==
    {(c - 1) * max_page_count + r : c \in 1 .. MaxChunks, r \in {1, max_page_count}}

ExecIdle ==
    /\ file_bytes = <<>>
    /\ self_max_workers = 0
    /\ pc = "idle"
    /\ document_byte_splits = <<>>
    /\ max_workers = 0
    /\ futures = <<>>
    /\ documents = <<>>
    /\ pending_exc = None
    /\ collect_order = <<>>
    /\ merge_arg = None
    /\ result = NoResult

NoDefinition == [type |-> "NoneType", cls |-> -1, base |-> -1, body |-> <<>>, errors |-> <<>>]

ClassIdle ==
    /\ method_groups = <<>>
    /\ classes = <<>>
    /\ class_error = NoDefinition

NoCall == [fn |-> "none"]

NodeIdle ==
    /\ document_node = None
    /\ clock = 0
    /\ last_call = NoCall
    /\ latest = <<>>

Init ==
    /\ file_bytes \in {UniformFile(p) : p \in FilePageCounts}
    /\ self_max_workers \in 1 .. MaxWorkers
    /\ pc = "split"
    /\ document_byte_splits = <<>>
    /\ max_workers = 0
    /\ futures = <<>>
    /\ documents = <<>>
    /\ pending_exc = None
    /\ collect_order = <<>>
    /\ merge_arg = None
    /\ result = NoResult
    /\ plan_in = NoPlanRun
    /\ plan_out = None
    /\ merge_in = <<>>
    /\ merge_out = NoMergeRun
    /\ ClassIdle
    /\ NodeIdle

Next ==
    \/ Split
    \/ \E index \in Chunks : Submit(index)
    \/ \E index \in Chunks : Start(index)
    \/ \E index \in Chunks : CallReturns(index)
    \/ \E index \in Chunks, kind \in ExceptionKinds : CallRaises(index, kind)
    \/ \E index \in Chunks : Collect(index)
    \/ ExitWith
    \/ ProcessDocumentSync

Spec == Init /\ [][Next]_vars

\* the pool threads run, every backend call returns or raises, and the
\* caller's thread goes on: some enabled step is eventually taken
\* the concurrent operation alone; the retry policy treats every exception
\* alike, so the failing attempts are all of one kind
NextLive ==
    \/ Split
    \/ \E index \in Chunks : Submit(index)
    \/ \E index \in Chunks : Start(index)
    \/ \E index \in Chunks : CallReturns(index)
    \/ \E index \in Chunks : CallRaises(index, "transient")
    \/ \E index \in Chunks : Collect(index)
    \/ ExitWith

SpecLive == Init /\ [][NextLive]_vars /\ WF_vars(NextLive)

\* ------------------------------------------------- the planner on its own
SeqsUpTo(S, n) == UNION {[1 .. k -> S] : k \in 1 .. n}

\* a 32-page document of 1 MB pages, planned with 15 units and 10 MB per chunk
Scenario32 == [units |-> [k \in 1 .. 32 |-> MB], max_units |-> 15, max_bytes |-> 10 * MB]

\* the same document under the provider's own limits
Provider32 == [units |-> [k \in 1 .. 32 |-> MB], max_units |-> max_page_count,
               max_bytes |-> max_bytes_per_request]

InitPlan ==
    /\ ExecIdle
    /\ plan_in \in [units : SeqsUpTo(1 .. MaxUnitSize, MaxUnits),
                    max_units : 1 .. MaxUnitsLimit,
                    max_bytes : 1 .. MaxBytesLimit] \cup {Scenario32, Provider32}
    /\ plan_out = None
    /\ merge_in = <<>>
    /\ merge_out = NoMergeRun
    /\ ClassIdle
    /\ NodeIdle

\* list(pdf_split_iter_with_max_bytes(file_bytes, max_page_count=..., max_bytes=...))
PlanRun ==
    /\ plan_out = None
    /\ plan_out' = PyList(pdf_split_iter_with_max_bytes(plan_in.units, plan_in.max_units,
                                                        plan_in.max_bytes))
    /\ UNCHANGED <<plan_in, execVars, mergeVars, otherVars>>

\* the backend's answers for the planned chunks, in chunk order
PlannedDocuments == [k \in DOMAIN plan_out.items |-> BackendDocument(plan_out.items[k])]

\* lines 409-419: every planned chunk is answered and the answers are handed
\* to gcp_documents_to_result
PlanMergeEntry ==
    /\ plan_out # None
    /\ merge_out = NoMergeRun
    /\ merge_in' = PlannedDocuments
    /\ merge_out' = [fn |-> "gcp_documents_to_result",
                     result |-> gcp_documents_to_result(PlannedDocuments)]
    /\ UNCHANGED <<planVars, execVars, otherVars>>

\* the answers of the planned chunks merged by gcp_documents_to_result_single
PlanMergeSingle ==
    /\ plan_out # None
    /\ merge_out = NoMergeRun
    /\ merge_in' = PlannedDocuments
    /\ merge_out' = [fn |-> "gcp_documents_to_result_single",
                     result |-> gcp_documents_to_result_single(PyList(PlannedDocuments))]
    /\ UNCHANGED <<planVars, execVars, otherVars>>

NextPlan == PlanRun \/ PlanMergeEntry \/ PlanMergeSingle

SpecPlan == InitPlan /\ [][NextPlan]_vars

\* --------------------------------------------------- the merge on its own
\* chunk results in chunk order: each starts where the one before it ended
RECURSIVE DocumentsOf(_, _)
DocumentsOf(page_counts, start) ==
    IF page_counts = <<>> THEN <<>>
    ELSE <<Document(start, Head(page_counts))>>
         \o DocumentsOf(Tail(page_counts), start + Head(page_counts))

InitMerge ==
    /\ ExecIdle
    /\ plan_in = NoPlanRun
    /\ plan_out = None
    /\ merge_in \in {DocumentsOf(c, 0) : c \in SeqsUpTo(0 .. MaxMergePages, MaxMergeDocs)}
    /\ merge_out = NoMergeRun
    /\ ClassIdle
    /\ NodeIdle

\* gcp_documents_to_result(documents, ...)
MergeEntry ==
    /\ merge_out = NoMergeRun
    /\ merge_out' = [fn |-> "gcp_documents_to_result",
                     result |-> gcp_documents_to_result(merge_in)]
    /\ UNCHANGED <<merge_in, execVars, planVars, otherVars>>

\* gcp_documents_to_result_single(documents, ...)
MergeSingle ==
    /\ merge_out = NoMergeRun
    /\ merge_out' = [fn |-> "gcp_documents_to_result_single",
                     result |-> gcp_documents_to_result_single(PyList(merge_in))]
    /\ UNCHANGED <<merge_in, execVars, planVars, otherVars>>

NextMerge == MergeEntry \/ MergeSingle

SpecMerge == InitMerge /\ [][NextMerge]_vars

\* --------------------------------------------------------- flexible_methods
\* _decorators.py.  Classes are numbered in the order of their definition:
\* class 1 is the decorated class, 0 stands for object.  cls.__name__ is the
\* number.  A class body gives, for each name it defines, whether the
\* definition is an async def.
Pair1 == <<"method1", "method1_async">>
Pair2 == <<"method2", "method2_async">>
BadGroup == <<"single_method">>

GroupOptions == {<<Pair1>>, <<Pair1, Pair2>>, <<Pair1, BadGroup, Pair2>>}

MethodNames == {"method1", "method1_async", "method2", "method2_async"}

ValidGroups(groups) == {groups[k] : k \in {j \in DOMAIN groups : Len(groups[j]) = 2}}

DeclaredNames(groups) == UNION {{g[1], g[2]} : g \in ValidGroups(groups)}

ClassBodies(groups) == UNION {[D -> BOOLEAN] : D \in SUBSET DeclaredNames(groups)}

\* a def or async def of a class body
FunctionDef(c, name, is_async) ==
    [type |-> "function", qualname |-> <<c, name>>, is_async |-> is_async]

NoFrame == [sync_method |-> None, async_method |-> None]

NewClass(c, base, class_body) ==
    [base |-> base,
     dict |-> [n \in DOMAIN class_body |-> FunctionDef(c, n, class_body[n])],
     frame |-> NoFrame]

\* getattr(cls, name, None): the attribute found along the bases
RECURSIVE Getattr(_, _, _)
Getattr(clss, c, name) ==
    IF c = 0 THEN None
    ELSE IF name \in DOMAIN clss[c].dict THEN clss[c].dict[name]
    ELSE Getattr(clss, clss[c].base, name)

\* lines 8-15
get_method(clss, c, name) ==
    IF name \in DOMAIN clss[c].dict
    THEN clss[c].dict[name]
    ELSE IF clss[c].base # 0 /\ name \in DOMAIN clss[clss[c].base].dict
    THEN None
    ELSE Getattr(clss, c, name)

ModeName(is_async) == IF is_async THEN "async" ELSE "sync"

\* variant: no mode is checked
validate_method_lenient(decorated, name, method, expected_async) == <<>>

\* lines 17-23: cls is the class the decorator was applied to
validate_method(decorated, name, method, expected_async) ==
    IF method = None THEN <<>>
    ELSE IF method.is_async # expected_async
    THEN <<[kind |-> "mode", name |-> name, cls |-> decorated,
            expected |-> ModeName(expected_async), actual |-> ModeName(method.is_async)]>>
    ELSE <<>>

\* variant: a pair with no member is let through
missing_error_omitted(c, sync_name, async_name, sync_method, async_method) == <<>>

\* lines 46-49
missing_error(c, sync_name, async_name, sync_method, async_method) ==
    IF sync_method = None /\ async_method = None
    THEN <<[kind |-> "missing", cls |-> c, names |-> <<sync_name, async_name>>]>>
    ELSE <<>>

\* lines 28-32
invalid_group_error(group) == [kind |-> "invalid_group", group |-> group]

\* lines 53-57 and 61-65: the wrapper reads sync_method or async_method from
\* the frame of the apply_flexible_methods call when it is called
WrapperOf(c, cell, method) ==
    [type |-> "wrapper", is_async |-> (cell = "sync_method"), frame |-> c,
     cell |-> cell, wrapped |-> method]

\* lines 51-65
synthesize(clss, c, sync_name, async_name, sync_method, async_method) ==
    IF sync_method # None /\ async_method = None
    THEN [clss EXCEPT ![c].dict =
             [n \in DOMAIN @ \cup {async_name} |->
                 IF n = async_name THEN WrapperOf(c, "sync_method", sync_method) ELSE @[n]]]
    ELSE IF async_method # None /\ sync_method = None
    THEN [clss EXCEPT ![c].dict =
             [n \in DOMAIN @ \cup {sync_name} |->
                 IF n = sync_name THEN WrapperOf(c, "async_method", async_method) ELSE @[n]]]
    ELSE clss

\* lines 26-66: the loop over the method groups
RECURSIVE ApplyLoop(_, _, _, _, _, _)
ApplyLoop(groups, k, clss, c, errors, frame) ==
    IF k > Len(groups)
    THEN [errors |-> errors, clss |-> [clss EXCEPT ![c].frame = frame]]
    ELSE IF Len(groups[k]) # 2
    THEN ApplyLoop(groups, k + 1, clss, c,
                   Append(errors, invalid_group_error(groups[k])), frame)
    ELSE LET sync_name == groups[k][1]
             async_name == groups[k][2]
             sync_method == get_method(clss, c, sync_name)
             async_method == get_method(clss, c, async_name)
         IN ApplyLoop(groups, k + 1,
                      synthesize(clss, c, sync_name, async_name, sync_method, async_method),
                      c,
                      errors \o validate_method(1, sync_name, sync_method, FALSE)
                             \o validate_method(1, async_name, async_method, TRUE)
                             \o missing_error(c, sync_name, async_name,
                                              sync_method, async_method),
                      [sync_method |-> sync_method, async_method |-> async_method])

\* lines 25-68
apply_flexible_methods(groups, clss, c) == ApplyLoop(groups, 1, clss, c, <<>>, NoFrame)

\* variant: the first problem found is raised
raise_first_error(c, base, class_body, errors) ==
    [type |-> "TypeError", cls |-> c, base |-> base, body |-> class_body,
     errors |-> <<errors[1]>>]

\* lines 67-68: one TypeError with every message
raise_errors(c, base, class_body, errors) ==
    [type |-> "TypeError", cls |-> c, base |-> base, body |-> class_body,
     errors |-> errors]

\* what a class statement (with the decorator, or under the inherited
\* __init_subclass__) leaves behind
Define(c, base, class_body) ==
    LET applied == apply_flexible_methods(method_groups,
                                          Append(classes, NewClass(c, base, class_body)), c)
    IN IF applied.errors # <<>>
       THEN /\ class_error' = raise_errors(c, base, class_body, applied.errors)
            /\ UNCHANGED classes
       ELSE /\ classes' = applied.clss
            /\ UNCHANGED class_error

\* lines 6-81: @flexible_methods(...) on a class
Decorate(class_body) ==
    /\ classes = <<>>
    /\ class_error = NoDefinition
    /\ Define(1, 0, class_body)
    /\ UNCHANGED <<method_groups, execVars, planVars, mergeVars, nodeVars>>

\* lines 72-79: a class statement below the decorated class
DefineSubclass(base, class_body) ==
    /\ classes # <<>>
    /\ class_error = NoDefinition
    /\ Len(classes) < 1 + MaxSubclasses
    /\ base \in DOMAIN classes
    /\ Define(Len(classes) + 1, base, class_body)
    /\ UNCHANGED <<method_groups, execVars, planVars, mergeVars, nodeVars>>

\* a call's positional and keyword arguments
CallArgs == {[args |-> <<>>, kwargs |-> <<>>],
             [args |-> <<"a">>, kwargs |-> <<<<"k", "v">>>>]}

\* calling the method with the arguments: a function returns its own value
\* for them, a wrapper hands them to what its frame's variable holds
RECURSIVE Call(_, _, _)
Call(clss, method, call_args) ==
    IF method = None
    THEN Raised([type |-> "TypeError"])      \* 'NoneType' object is not callable
    ELSE IF method.type = "function"
    THEN Returned([type |-> "value", of |-> method.qualname, given |-> call_args])
    ELSE Call(clss, clss[method.frame].frame[method.cell], call_args)

InitClass ==
    /\ ExecIdle
    /\ plan_in = NoPlanRun
    /\ plan_out = None
    /\ merge_in = <<>>
    /\ merge_out = NoMergeRun
    /\ NodeIdle
    /\ method_groups \in GroupOptions
    /\ classes = <<>>
    /\ class_error = NoDefinition

NextClass ==
    \/ \E class_body \in ClassBodies(method_groups) : Decorate(class_body)
    \/ \E base \in DOMAIN classes, class_body \in ClassBodies(method_groups) :
          DefineSubclass(base, class_body)

SpecClass == InitClass /\ [][NextClass]_vars

\* ------------------------------------------------- providers and the node
\* tasks/base.py, tasks/ocr/base.py.  A Python dict is the sequence of its
\* items in insertion order.
dict_keys(d) == {d[k].key : k \in DOMAIN d}

dict_get(d, key) ==
    IF key \in dict_keys(d)
    THEN d[CHOOSE k \in DOMAIN d : d[k].key = key].value
    ELSE None

\* variant: d.setdefault(key, value)
dict_setdefault(d, key, value) ==
    IF key \in dict_keys(d) THEN d ELSE Append(d, [key |-> key, value |-> value])

\* d[key] = value
dict_setitem(d, key, value) ==
    IF key \in dict_keys(d)
    THEN [k \in DOMAIN d |-> IF d[k].key = key THEN [key |-> key, value |-> value] ELSE d[k]]
    ELSE Append(d, [key |-> key, value |-> value])

\* tasks/base.py lines 28-30
task_key(task_result) == task_result.provider_name \o "_" \o task_result.task_name

\* schema/pipeline/node/page.py lines 17-37: a page node's aggregators
NewPageNode == [task_results |-> <<>>, ocr_results |-> <<>>]

NewDocumentNode(page_count) ==
    [page_nodes |-> [n \in 1 .. page_count |-> NewPageNode], task_results |-> <<>>]

\* variant: the value of the key inserted last
result_last_inserted(results) ==
    IF results = <<>> THEN None ELSE results[Len(results)].value

\* tasks/base.py lines 83-85: next(iter(self.results.values()), None)
ResultContainer_result(results) ==
    IF results = <<>> THEN None ELSE results[1].value

\* a dict item, and {**a, **b}
Item(key, value) == [key |-> key, value |-> value]

RECURSIVE dict_update(_, _, _)
dict_update(a, b, k) ==
    IF k > Len(b) THEN a
    ELSE dict_update(dict_setitem(a, b[k].key, b[k].value), b, k + 1)

\* tasks/base.py line 151: {**a, **b}
dict_merge(a, b) == dict_update(a, b, 1)

\* provider classes: name, task and the class attribute requires_input
ProviderClass(kind, name, task_name, requires_input) ==
    [kind |-> kind, name |-> name, task_name |-> task_name,
     requires_input |-> requires_input]

ProviderClasses ==
    {ProviderClass("page", "anthropic", "markerize", FALSE),
     ProviderClass("ocr", "gcp", "ocr", FALSE),
     ProviderClass("ocr", "tesseract", "ocr", FALSE)}

InputProviderClasses ==
    {ProviderClass("page", "anthropic", "classification", TRUE),
     ProviderClass("ocr", "gcp", "ocr", TRUE)}

DocumentProviderClasses ==
    {ProviderClass("document", "anthropic", "summary", FALSE),
     ProviderClass("document", "anthropic", "classification", TRUE)}

\* tasks/base.py lines 111-116 and 180-185: cls() and then
\* obj.provider_kwargs = kwargs
with_kwargs(provider_class, kwargs) ==
    [kind |-> provider_class.kind, name |-> provider_class.name,
     task_name |-> provider_class.task_name,
     requires_input |-> provider_class.requires_input,
     instance_dict |-> <<Item("provider_kwargs", kwargs)>>]

\* cls(): provider_kwargs is only annotated on the class, the instance has
\* no such attribute
constructed(provider_class) ==
    [kind |-> provider_class.kind, name |-> provider_class.name,
     task_name |-> provider_class.task_name,
     requires_input |-> provider_class.requires_input,
     instance_dict |-> <<>>]

BoundConfiguration == <<Item("model", "bound model"), Item("dpi", "bound dpi")>>

CallKwargs ==
    {<<>>,
     <<Item("dpi", "call dpi")>>,
     <<Item("lang", "call lang"), Item("dpi", "call dpi")>>}

\* the task_input argument of a call: left out, None, or a value
Omitted == [type |-> "omitted"]
TaskInput == [type |-> "input"]
TaskInputs == {Omitted, None, TaskInput}

\* the instances that contribute to one document over several calls
PageProviders == {with_kwargs(c, <<>>) : c \in ProviderClasses}

DocumentProviders ==
    {with_kwargs(c, <<>>) : c \in {ProviderClass("document", "anthropic", "summary", FALSE)}}

\* the instances of a single call, with and without bound configuration
CallPageProviders ==
    {with_kwargs(c, b) : c \in ProviderClasses \cup InputProviderClasses,
                         b \in {<<>>, BoundConfiguration}}
        \cup {constructed(c) : c \in ProviderClasses \cup InputProviderClasses}

CallDocumentProviders ==
    {with_kwargs(c, b) : c \in DocumentProviderClasses, b \in {<<>>, BoundConfiguration}}
        \cup {constructed(c) : c \in DocumentProviderClasses}

\* what a provider's processing method returns for the pages start..stop: a
\* dict from page number to the result produced for the page
PageResult(self, page_number, when) ==
    [provider_name |-> self.name, task_name |-> self.task_name,
     page_number |-> page_number, when |-> when]

process_document_pages(self, start, stop, when) ==
    [k \in 1 .. (stop - start + 1) |->
        [key |-> start + k - 1, value |-> PageResult(self, start + k - 1, when)]]

process_document(self, when) ==
    [provider_name |-> self.name, task_name |-> self.task_name, page_number |-> 0, when |-> when]

\* the record of one invocation of a processing method
Invocation(fn, task_input, kwargs) ==
    [fn |-> fn, task_input |-> task_input, kwargs |-> kwargs]

\* the value of a parameter with default None
DefaultNone(argument) == IF argument = Omitted THEN None ELSE argument

\* the record of one write into an aggregator: scope 0 is the document
Contribution(scope, container, key, value) ==
    [scope |-> scope, container |-> container, key |-> key, value |-> value]

\* tasks/base.py lines 58-65
page_contribute_to_document_node(node, page_result, page_number) ==
    [node EXCEPT !.page_nodes[page_number].task_results =
        dict_setitem(@, task_key(page_result), page_result)]

\* tasks/base.py lines 49-52
document_contribute_to_document_node(node, document_result) ==
    [node EXCEPT !.task_results = dict_setitem(@, task_key(document_result), document_result)]

\* tasks/base.py lines 161-163: the loop over results.items()
RECURSIVE ContributeLoop(_, _, _, _)
ContributeLoop(results, k, node, log) ==
    IF k > Len(results)
    THEN [document_node |-> node, log |-> log]
    ELSE ContributeLoop(results, k + 1,
            page_contribute_to_document_node(node, results[k].value, results[k].key),
            Append(log, Contribution(results[k].key, "task_results",
                                     task_key(results[k].value), results[k].value)))

\* a call that raised before it did anything
RaisedEarly(exception_type, node, log) ==
    [outcome |-> Raised([type |-> exception_type]), document_node |-> node,
     log |-> log, invoked |-> <<>>]

\* tasks/base.py lines 142-165
page_process_document_node(self, node, task_input, start, stop, contribute_to_document, kwargs, when, log) ==
    IF "provider_kwargs" \notin dict_keys(self.instance_dict)
    THEN RaisedEarly("AttributeError", node, log)
    ELSE LET merged == dict_merge(dict_get(self.instance_dict, "provider_kwargs"), kwargs)
             results == process_document_pages(self, start, stop, when)
             contributed == IF contribute_to_document
                            THEN ContributeLoop(results, 1, node, log)
                            ELSE [document_node |-> node, log |-> log]
         IN [outcome |-> Returned(results),
             document_node |-> contributed.document_node,
             log |-> contributed.log,
             invoked |-> <<Invocation("process_document_pages",
                                      DefaultNone(task_input), merged)>>]

\* tasks/ocr/base.py lines 17-24
RECURSIVE populate_ocr_results(_, _, _, _, _)
populate_ocr_results(self, results, k, node, log) ==
    IF k > Len(results)
    THEN [document_node |-> node, log |-> log]
    ELSE populate_ocr_results(self, results, k + 1,
            [node EXCEPT !.page_nodes[results[k].key].ocr_results =
                dict_setitem(@, self.name, results[k].value)],
            Append(log, Contribution(results[k].key, "ocr_results",
                                     self.name, results[k].value)))

\* tasks/ocr/base.py lines 26-42: task_input has no default here
ocr_process_document_node(self, node, task_input, start, stop, contribute_to_document, kwargs, when, log) ==
    IF task_input = Omitted
    THEN RaisedEarly("TypeError", node, log)
    ELSE LET base_result == page_process_document_node(self, node, task_input, start, stop,
                                                       contribute_to_document, kwargs,
                                                       when, log)
         IN IF base_result.outcome.kind = "raised"
            THEN base_result
            ELSE LET populated == populate_ocr_results(self, base_result.outcome.value, 1,
                                                       base_result.document_node,
                                                       base_result.log)
                 IN [outcome |-> base_result.outcome,
                     document_node |-> populated.document_node,
                     log |-> populated.log,
                     invoked |-> base_result.invoked]

\* tasks/base.py lines 193-207
document_process_document_node(self, node, task_input, contribute_to_document, kwargs, when, log) ==
    LET document_result == process_document(self, when)
    IN [outcome |-> Returned(document_result),
        document_node |-> IF contribute_to_document
                          THEN document_contribute_to_document_node(node, document_result)
                          ELSE node,
        log |-> IF contribute_to_document
                THEN Append(log, Contribution(0, "task_results",
                                              task_key(document_result), document_result))
                ELSE log,
        invoked |-> <<Invocation("process_document", DefaultNone(task_input), kwargs)>>]

\* a call of process_document_node and what it left behind
Called(self, task_input, contribute_to_document, kwargs, call) ==
    /\ clock' = clock + 1
    /\ document_node' = call.document_node
    /\ latest' = call.log
    /\ last_call' = [fn |-> "process_document_node", self |-> self,
                     task_input |-> task_input,
                     contribute_to_document |-> contribute_to_document,
                     kwargs |-> kwargs,
                     before |-> document_node, outcome |-> call.outcome,
                     invoked |-> call.invoked]
    /\ UNCHANGED <<execVars, planVars, mergeVars, classVars>>

ProcessDocumentNodePage(self, task_input, start, stop, contribute_to_document, kwargs) ==
    /\ clock < MaxCalls
    /\ self.kind = "page"
    /\ Called(self, task_input, contribute_to_document, kwargs,
              page_process_document_node(self, document_node, task_input, start, stop,
                                         contribute_to_document, kwargs, clock + 1, latest))

ProcessDocumentNodeOCR(self, task_input, start, stop, contribute_to_document, kwargs) ==
    /\ clock < MaxCalls
    /\ self.kind = "ocr"
    /\ Called(self, task_input, contribute_to_document, kwargs,
              ocr_process_document_node(self, document_node, task_input, start, stop,
                                        contribute_to_document, kwargs, clock + 1, latest))

ProcessDocumentNodeDocument(self, task_input, contribute_to_document, kwargs) ==
    /\ clock < MaxCalls
    /\ self.kind = "document"
    /\ Called(self, task_input, contribute_to_document, kwargs,
              document_process_document_node(self, document_node, task_input,
                                             contribute_to_document, kwargs,
                                             clock + 1, latest))

InitNode ==
    /\ ExecIdle
    /\ plan_in = NoPlanRun
    /\ plan_out = None
    /\ merge_in = <<>>
    /\ merge_out = NoMergeRun
    /\ ClassIdle
    /\ document_node \in {NewDocumentNode(n) : n \in 1 .. MaxNodePages}
    /\ clock = 0
    /\ last_call = NoCall
    /\ latest = <<>>

\* start and stop of a call: one page of the document, or all of its pages
PageRanges == {r \in (1 .. MaxNodePages) \X (1 .. MaxNodePages) :
                  /\ r[2] <= Len(document_node.page_nodes)
                  /\ r[1] = r[2] \/ (r[1] = 1 /\ r[2] = Len(document_node.page_nodes))}

\* several calls by configured providers on one document
NextNode ==
    \/ \E self \in PageProviders, r \in PageRanges, c \in BOOLEAN :
          ProcessDocumentNodePage(self, TaskInput, r[1], r[2], c, <<>>)
    \/ \E self \in PageProviders, r \in PageRanges, c \in BOOLEAN :
          ProcessDocumentNodeOCR(self, TaskInput, r[1], r[2], c, <<>>)
    \/ \E self \in DocumentProviders, c \in BOOLEAN :
          ProcessDocumentNodeDocument(self, TaskInput, c, <<>>)

SpecNode == InitNode /\ [][NextNode]_vars

\* one call on a fresh document, over every way of making it
NextCall ==
    \/ \E self \in CallPageProviders, task_input \in TaskInputs, r \in PageRanges,
          c \in BOOLEAN, kwargs \in CallKwargs :
          clock = 0 /\ ProcessDocumentNodePage(self, task_input, r[1], r[2], c, kwargs)
    \/ \E self \in CallPageProviders, task_input \in TaskInputs, r \in PageRanges,
          c \in BOOLEAN, kwargs \in CallKwargs :
          clock = 0 /\ ProcessDocumentNodeOCR(self, task_input, r[1], r[2], c, kwargs)
    \/ \E self \in CallDocumentProviders, task_input \in TaskInputs,
          c \in BOOLEAN, kwargs \in CallKwargs :
          clock = 0 /\ ProcessDocumentNodeDocument(self, task_input, c, kwargs)

SpecCall == InitNode /\ [][NextCall]_vars

\* ================================================================== claims
AllCollected == Len(collect_order) = Len(document_byte_splits)

\* the chunk whose future the as_completed loop handled last
LastYielded == collect_order[Len(collect_order)]

\* C1: whatever the completion order, when every chunk call succeeds the list
\* handed to the merge holds in slot i the backend's answer for the i-th
\* planned chunk, so the list depends on the plan only.
C1_OrderedHandoff ==
    merge_arg # None =>
        /\ AllCollected
        /\ merge_arg = PyList([k \in 1 .. Len(document_byte_splits) |->
                                  BackendDocument(document_byte_splits[k])])

\* the last chunk completed first and the first chunk last
C1_Witness ==
    /\ merge_arg # None
    /\ Len(document_byte_splits) = 3
    /\ collect_order = <<2, 1, 0>>
    /\ self_max_workers = 2

\* C2: for chunk results of a valid plan (every chunk has a page) the merge
\* entry point returns page numbers 1, 2, ..., totalPages in this order.
ValidPlanResults(docs) == Len(docs) >= 1 /\ \A k \in DOMAIN docs : docs[k].pages >= 1

TotalPages(docs) == SumSeq([k \in DOMAIN docs |-> docs[k].pages])

C2_MergeContiguity ==
    (merge_out.fn = "gcp_documents_to_result" /\ ValidPlanResults(merge_in)) =>
        /\ merge_out.result.kind = "returned"
        /\ PageNumbers(merge_out.result) = [k \in 1 .. TotalPages(merge_in) |-> k]

\* C3: all or nothing: the merge is entered only with every slot filled by a
\* successful chunk, and once a chunk has failed for good the operation ends
\* by raising, without a merge.
FailedChunks == {i \in DOMAIN futures : IsException(futures[i].outcome)}

C3_AllOrNothing ==
    /\ (merge_arg # None \/ result.kind = "returned") =>
          /\ FailedChunks = {}
          /\ \A i \in Chunks : /\ futures[i].state = "FINISHED"
                               /\ merge_arg.items[i + 1] = futures[i].outcome
                               /\ merge_arg.items[i + 1].type = "Document"
    /\ (pc = "done" /\ FailedChunks # {}) =>
          /\ result.kind = "raised"
          /\ merge_arg = None

\* one chunk failed after another one had delivered its document
C3_Witness ==
    /\ pc = "done"
    /\ FailedChunks # {}
    /\ \E k \in DOMAIN documents : documents[k] # None
    /\ result.kind = "raised"

\* C4: a call that failed permanently is not attempted again: no running call
\* has a permanent failure behind it, and a call that ended on a permanent
\* failure ended on its first attempt.
C4_PermanentNotRetried ==
    \A i \in DOMAIN futures :
        /\ futures[i].retry_state.last_exception # "permanent"
        /\ (futures[i].outcome.type = "RetryError"
            /\ futures[i].outcome.last_attempt.exception = "permanent")
              => futures[i].outcome.last_attempt.attempt_number = 1

\* C5: a call gives up only on its 10th failed attempt; the wait before
\* attempt a + 1 is 1, 2, 4, 8, 16, 32, 60, 60, 60 seconds: doubling from the
\* base delay, non-decreasing and never above the cap.
ExpectedWaits == <<1, 2, 4, 8, 16, 32, 60, 60, 60>>

C5_RetryExhaustion ==
    \A i \in DOMAIN futures :
        LET rs == futures[i].retry_state IN
        /\ futures[i].outcome.type = "RetryError"
              => futures[i].outcome.last_attempt.attempt_number = 10
        /\ futures[i].outcome.type \notin ExceptionKinds
        /\ futures[i].state = "RUNNING" =>
              /\ rs.attempt_number \in 1 .. 10
              /\ rs.idle_for = SumSeq(SubSeq(ExpectedWaits, 1, rs.attempt_number - 1))
              /\ rs.attempt_number > 1 =>
                    /\ rs.upcoming_sleep = ExpectedWaits[rs.attempt_number - 1]
                    /\ rs.upcoming_sleep <= 60
                    /\ rs.attempt_number > 2 =>
                          rs.upcoming_sleep >= ExpectedWaits[rs.attempt_number - 2]

\* a call failed transiently on its 10th attempt and the operation raised
C5_Witness ==
    /\ pc = "done"
    /\ result.kind = "raised"
    /\ \E i \in DOMAIN futures :
          /\ futures[i].outcome.type = "RetryError"
          /\ futures[i].outcome.last_attempt.exception = "transient"

\* C6: the number of chunk calls in flight never exceeds
\* min(chunkCount, maxParallelism).
C6_InFlightBound ==
    Cardinality(Running) <= Min(Len(document_byte_splits), self_max_workers)

\* the pool is full while a chunk is still queued
C6_Witness ==
    /\ Len(document_byte_splits) = 3
    /\ self_max_workers = 2
    /\ Cardinality(Running) = 2
    /\ Pending # {}

\* C7 as stated: the failure that reaches the caller after a chunk exhausted
\* its retries names the unit range of that chunk.
ChunkFailureRaised == pc = "done" /\ result.kind = "raised" /\ pending_exc # None

Covers(chunks, total) ==
    /\ Len(chunks) >= 1
    /\ chunks[1].start = 0
    /\ \A k \in 1 .. Len(chunks) - 1 : chunks[k + 1].start = chunks[k].start + chunks[k].count
    /\ chunks[Len(chunks)].start + chunks[Len(chunks)].count = total
    /\ \A k \in DOMAIN chunks : chunks[k].count >= 1

\* the byte length of a chunk is that of the units in its range
WholeUnits(chunks, units) ==
    \A k \in DOMAIN chunks :
        chunks[k].start + chunks[k].count <= Len(units)
        /\ chunks[k].bytes = SumSeq(SubSeq(units, chunks[k].start + 1,
                                           chunks[k].start + chunks[k].count))

MaxOf(units) == CHOOSE m \in {units[k] : k \in DOMAIN units} :
                    \A k \in DOMAIN units : units[k] <= m

\* C8: with maxUnits >= 1 and maxBytes >= the largest unit, the planned
\* chunks cover [0, totalUnits) exactly and in order, and every chunk has at
\* most maxUnits units and at most maxBytes bytes.
C8_PlannerCoverage ==
    (plan_out # None /\ plan_in.max_units >= 1 /\ plan_in.max_bytes >= MaxOf(plan_in.units)) =>
        /\ Covers(plan_out.items, Len(plan_in.units))
        /\ WholeUnits(plan_out.items, plan_in.units)
        /\ \A k \in DOMAIN plan_out.items :
              /\ plan_out.items[k].count <= plan_in.max_units
              /\ plan_out.items[k].bytes <= plan_in.max_bytes

\* one chunk was closed by the unit bound and another by the byte bound
C8_Witness ==
    /\ plan_out # None
    /\ plan_in.max_bytes >= MaxOf(plan_in.units)
    /\ Len(plan_out.items) >= 3
    /\ \E k \in DOMAIN plan_out.items : plan_out.items[k].count = plan_in.max_units
    /\ \E k \in 1 .. Len(plan_out.items) - 1 :
          /\ plan_out.items[k].count < plan_in.max_units
          /\ plan_out.items[k].bytes + plan_in.units[plan_out.items[k + 1].start + 1]
                > plan_in.max_bytes

\* C9: a unit larger than maxBytesPerChunk is a chunk of its own, with its
\* whole size, and the units around it are still covered in order.
Oversized == {u \in DOMAIN plan_in.units : plan_in.units[u] > plan_in.max_bytes}

C9_OversizedAlone ==
    plan_out # None =>
        /\ \A u \in Oversized :
              \E k \in DOMAIN plan_out.items :
                  plan_out.items[k] = [start |-> u - 1, count |-> 1, bytes |-> plan_in.units[u]]
        /\ Covers(plan_out.items, Len(plan_in.units))
        /\ WholeUnits(plan_out.items, plan_in.units)

\* an oversized unit between two units that fit
C9_Witness ==
    /\ plan_out # None
    /\ \E u \in Oversized :
          /\ u > 1 /\ u < Len(plan_in.units)
          /\ u - 1 \notin Oversized /\ u + 1 \notin Oversized
          /\ plan_in.max_units >= 2

UnitCounts(chunks) == [k \in DOMAIN chunks |-> chunks[k].count]

\* C10 as stated: for every document and every pair of limits each chunk has
\* at most maxBytes bytes and at most maxUnits units, and the unit counts sum
\* to the document's unit count.
C10_ChunkLimits ==
    plan_out # None =>
        /\ \A k \in DOMAIN plan_out.items :
              /\ plan_out.items[k].bytes <= plan_in.max_bytes
              /\ plan_out.items[k].count <= plan_in.max_units
        /\ SumSeq(UnitCounts(plan_out.items)) = Len(plan_in.units)

\* C10 amended: each chunk has at most maxUnits units, and at most maxBytes
\* bytes unless it is a single unit that is itself larger than maxBytes; the
\* unit counts sum to the document's unit count.
C10_ChunkLimitsButOversized ==
    plan_out # None =>
        /\ \A k \in DOMAIN plan_out.items :
              /\ plan_out.items[k].count <= plan_in.max_units
              /\ \/ plan_out.items[k].bytes <= plan_in.max_bytes
                 \/ /\ plan_out.items[k].count = 1
                    /\ plan_out.items[k].start + 1 \in Oversized
        /\ SumSeq(UnitCounts(plan_out.items)) = Len(plan_in.units)

\* a plan with an oversized single-unit chunk next to a chunk of several units
C10_Witness ==
    /\ plan_out # None
    /\ \E k \in DOMAIN plan_out.items : plan_out.items[k].bytes > plan_in.max_bytes
    /\ \E k \in DOMAIN plan_out.items :
          /\ plan_out.items[k].count >= 2
          /\ plan_out.items[k].bytes = plan_in.max_bytes

\* C11 as stated: the 32-page document of 1 MB pages, planned with 15 units
\* and 10 MB per chunk, gives chunks of 15, 15 and 2 units, and the merged
\* result numbers the units 1..32 in order.
Numbers1To(n) == [k \in 1 .. n |-> k]

MergedNumbers1To(n) ==
    /\ merge_out.result.kind = "returned"
    /\ PageNumbers(merge_out.result) = Numbers1To(n)

Subclasses == {c \in DOMAIN classes : classes[c].base # 0}

\* the names a class body defined itself, and the names synthesized for it
OwnDefined(c) == {n \in DOMAIN classes[c].dict : classes[c].dict[n].type = "function"}

Synthesized(c) == {n \in DOMAIN classes[c].dict : classes[c].dict[n].type = "wrapper"}

\* the other name of the pair a declared name belongs to
Partner(n) ==
    CHOOSE m \in MethodNames :
        m # n /\ \E g \in ValidGroups(method_groups) : {g[1], g[2]} = {n, m}

\* C12: after any sequence of successful class definitions below a decorated
\* class, for every declared pair both names are attributes of every class of
\* the hierarchy, the blocking name a plain function and the non-blocking
\* name a coroutine function.
C12_ContractComplete ==
    \A c \in DOMAIN classes : \A g \in ValidGroups(method_groups) :
        LET sync_attr == Getattr(classes, c, g[1])
            async_attr == Getattr(classes, c, g[2])
        IN /\ sync_attr # None
           /\ async_attr # None
           /\ ~sync_attr.is_async
           /\ async_attr.is_async

\* a three-level hierarchy with two pairs whose lowest class had a blocking
\* and a non-blocking member synthesized
C12_Witness ==
    /\ method_groups = <<Pair1, Pair2>>
    /\ Len(classes) = 3
    /\ classes[3].base = 2
    /\ classes[2].base = 1
    /\ \E n \in Synthesized(3) : classes[3].dict[n].is_async
    /\ \E n \in Synthesized(3) : ~classes[3].dict[n].is_async

\* C13: every synthesized member, called with any arguments, gives what the
\* defined member of its own pair gives for the same arguments, with one or
\* with several declared pairs.
C13_SynthesizedDelegates ==
    \A c \in DOMAIN classes : \A n \in Synthesized(c) : \A call_args \in CallArgs :
        Call(classes, classes[c].dict[n], call_args)
            = Call(classes, classes[c].dict[Partner(n)], call_args)

\* C14: a subclass that defines exactly one member of a pair gets the other
\* name synthesized on itself, delegating to its own member and distinct from
\* what the name resolves to on its parent.
C14_SubclassDelegatesToOwn ==
    \A c \in Subclasses : \A n \in OwnDefined(c) :
        Partner(n) \notin OwnDefined(c) =>
            /\ Partner(n) \in Synthesized(c)
            /\ classes[c].dict[Partner(n)] # Getattr(classes, classes[c].base, Partner(n))
            /\ \A call_args \in CallArgs :
                  Call(classes, classes[c].dict[Partner(n)], call_args)
                      = Call(classes, classes[c].dict[n], call_args)

\* C15: the definition of a subclass never fails for a pair neither member of
\* which the subclass defines itself, the pair being present on its parent.
C15_InheritedPairAccepted ==
    (class_error.type = "TypeError" /\ class_error.base # 0) =>
        \A k \in DOMAIN class_error.errors :
            class_error.errors[k].kind = "missing" =>
                /\ Getattr(classes, class_error.base, class_error.errors[k].names[1]) = None
                /\ Getattr(classes, class_error.base, class_error.errors[k].names[2]) = None

\* the declared names a class body defines with the wrong execution mode
WrongMode(class_body) ==
    {n \in DOMAIN class_body :
        \E g \in ValidGroups(method_groups) :
            \/ n = g[1] /\ class_body[n]
            \/ n = g[2] /\ ~class_body[n]}

ExpectedMode(n) ==
    IF \E g \in ValidGroups(method_groups) : n = g[1] THEN "sync" ELSE "async"

\* C16: no class that defines a declared name with the wrong execution mode
\* is defined, and the error of the failed definition names, for each such
\* method, the method, the class being defined and the expected mode.
C16_ModeErrorNamesType ==
    /\ \A c \in DOMAIN classes : \A n \in OwnDefined(c) :
          ModeName(classes[c].dict[n].is_async) = ExpectedMode(n)
    /\ class_error.type = "TypeError" =>
          \A n \in WrongMode(class_error.body) :
              \E k \in DOMAIN class_error.errors :
                  /\ class_error.errors[k].kind = "mode"
                  /\ class_error.errors[k].name = n
                  /\ class_error.errors[k].cls = class_error.cls
                  /\ class_error.errors[k].expected = ExpectedMode(n)

\* the pairs neither member of which is in the body of the class being
\* defined or anywhere along its bases
MissingPairs(base, class_body) ==
    {g \in ValidGroups(method_groups) :
        /\ g[1] \notin DOMAIN class_body
        /\ g[2] \notin DOMAIN class_body
        /\ Getattr(classes, base, g[1]) = None
        /\ Getattr(classes, base, g[2]) = None}

\* C17: no class is defined with a declared pair absent from its whole
\* hierarchy, and the error of a failed definition names, for each such pair,
\* the class being defined and both names of the pair.
C17_MissingPairRejected ==
    /\ \A c \in DOMAIN classes : \A g \in ValidGroups(method_groups) :
          Getattr(classes, c, g[1]) # None \/ Getattr(classes, c, g[2]) # None
    /\ class_error.type = "TypeError" =>
          \A g \in MissingPairs(class_error.base, class_error.body) :
              \E k \in DOMAIN class_error.errors :
                  class_error.errors[k] =
                      [kind |-> "missing", cls |-> class_error.cls, names |-> g]

\* the decorated class was defined with no member of a pair and no other
\* problem
C17_Witness ==
    /\ class_error.type = "TypeError"
    /\ class_error.cls = 1
    /\ method_groups = <<Pair1, Pair2>>
    /\ MissingPairs(0, class_error.body) = {Pair2}
    /\ WrongMode(class_error.body) = {}

\* the groups that are not two names
InvalidGroups == {method_groups[k] : k \in {j \in DOMAIN method_groups : Len(method_groups[j]) # 2}}

\* the violations of a definition: wrong modes, missing pairs, invalid groups
Violations(base, class_body) ==
    {<<"mode", n>> : n \in WrongMode(class_body)}
        \cup {<<"missing", g>> : g \in MissingPairs(base, class_body)}
        \cup {<<"invalid_group", g>> : g \in InvalidGroups}

\* what a message is about
Reported(message) ==
    IF message.kind = "mode" THEN <<"mode", message.name>>
    ELSE IF message.kind = "missing" THEN <<"missing", message.names>>
    ELSE <<"invalid_group", message.group>>

\* C18: a definition with k >= 1 violations raises one error whose message
\* holds a message for each of the k violations, and a class is defined only
\* when its definition has no violation.
C18_AllViolationsReported ==
    /\ classes # <<>> => InvalidGroups = {}
    /\ \A c \in DOMAIN classes : \A n \in OwnDefined(c) :
          ModeName(classes[c].dict[n].is_async) = ExpectedMode(n)
    /\ class_error.type = "TypeError" =>
          /\ class_error.errors # <<>>
          /\ \A v \in Violations(class_error.base, class_error.body) :
                \E k \in DOMAIN class_error.errors : Reported(class_error.errors[k]) = v

\* a definition failed with a wrong mode, a missing pair and an invalid group
\* at once
C18_Witness ==
    /\ class_error.type = "TypeError"
    /\ \E n \in MethodNames : <<"mode", n>> \in Violations(class_error.base, class_error.body)
    /\ <<"missing", Pair2>> \in Violations(class_error.base, class_error.body)
    /\ <<"invalid_group", BadGroup>> \in Violations(class_error.base, class_error.body)
    /\ Len(class_error.errors) >= 3

\* ---------------------------------------------------------------- C19, C20
\* C19: a call of process_document_node on a page-level provider, OCR
\* providers included, with the contribute flag false leaves every aggregator
\* of the document graph as it was; with the flag true each produced result
\* is stored in the task results of the page it was produced for.
C19_ContributionOptIn ==
    (/\ last_call.fn = "process_document_node"
     /\ last_call.self.kind \in {"page", "ocr"}
     /\ last_call.outcome.kind = "returned") =>
        IF last_call.contribute_to_document
        THEN \A k \in DOMAIN last_call.outcome.value :
                dict_get(document_node.page_nodes[last_call.outcome.value[k].key].task_results,
                         task_key(last_call.outcome.value[k].value))
                    = last_call.outcome.value[k].value
        ELSE document_node = last_call.before

\* the aggregators of the graph: scope 0 is the document, scope n page n
Aggregator(scope, container) ==
    IF scope = 0 THEN document_node.task_results
    ELSE IF container = "task_results" THEN document_node.page_nodes[scope].task_results
    ELSE document_node.page_nodes[scope].ocr_results

Aggregators ==
    {<<0, "task_results">>}
        \cup ((1 .. Len(document_node.page_nodes)) \X {"task_results", "ocr_results"})

\* the positions in the history of contributions that wrote this aggregator
\* under this key
Contributed(scope, container, key) ==
    {k \in DOMAIN latest :
        /\ latest[k].scope = scope
        /\ latest[k].container = container
        /\ latest[k].key = key}

MaxOfSet(S) == CHOOSE m \in S : \A k \in S : k <= m

\* C20: after any sequence of contributions every aggregator holds one entry
\* per key contributed to it and no other entry, and the entry of a key is the
\* result most recently contributed under that key.
C20_OneLivePerKey ==
    \A a \in Aggregators :
        LET d == Aggregator(a[1], a[2])
        IN /\ \A i, j \in DOMAIN d : d[i].key = d[j].key => i = j
           /\ \A i \in DOMAIN d : Contributed(a[1], a[2], d[i].key) # {}
           /\ \A k \in DOMAIN latest :
                 (latest[k].scope = a[1] /\ latest[k].container = a[2]) =>
                     dict_get(d, latest[k].key)
                         = latest[MaxOfSet(Contributed(a[1], a[2], latest[k].key))].value

\* page 1 holds results under two keys, one of them contributed twice, and
\* another page holds a result of the first contribution
C20_Witness ==
    /\ Len(document_node.page_nodes) >= 2
    /\ Len(document_node.page_nodes[1].task_results) = 2
    /\ \E key \in dict_keys(document_node.page_nodes[1].task_results) :
          Cardinality(Contributed(1, "task_results", key)) = 2
    /\ \E key \in dict_keys(document_node.page_nodes[2].task_results) :
          dict_get(document_node.page_nodes[2].task_results, key).when = 1

\* ------------------------------------------------------- C21, C22, C25, C29
\* C21: a call of process_document_node without input on a provider whose
\* requires_input is true raises, invokes no processing method and leaves
\* the document graph as it was.
C21_InputRequired ==
    (/\ last_call.fn = "process_document_node"
     /\ last_call.self.requires_input
     /\ last_call.task_input = Omitted) =>
        /\ last_call.outcome.kind = "raised"
        /\ last_call.invoked = <<>>
        /\ document_node = last_call.before

\* the keyword arguments a call hands to the processing method
PassedKwargs == last_call.invoked[1].kwargs

\* bound configuration overlaid with the call-time keyword arguments
Overlaid(bound, kwargs, passed) ==
    /\ dict_keys(passed) = dict_keys(bound) \cup dict_keys(kwargs)
    /\ \A i, j \in DOMAIN passed : passed[i].key = passed[j].key => i = j
    /\ \A key \in dict_keys(kwargs) : dict_get(passed, key) = dict_get(kwargs, key)
    /\ \A key \in dict_keys(bound) \ dict_keys(kwargs) :
          dict_get(passed, key) = dict_get(bound, key)

\* C22: for a provider created by with_kwargs, page-level or document-level,
\* the processing method is invoked with the bound configuration overlaid
\* with the call-time keyword arguments.
C22_BoundOverlaid ==
    (/\ last_call.fn = "process_document_node"
     /\ "provider_kwargs" \in dict_keys(last_call.self.instance_dict)
     /\ last_call.invoked # <<>>) =>
        Overlaid(dict_get(last_call.self.instance_dict, "provider_kwargs"),
                 last_call.kwargs, PassedKwargs)

\* the history of contributions to the OCR results of a page
OcrContributions(page_number) ==
    {k \in DOMAIN latest :
        latest[k].scope = page_number /\ latest[k].container = "ocr_results"}

MinOfSet(S) == CHOOSE m \in S : \A k \in S : m <= k

\* C25: the result of a page's OCR result container is None while no backend
\* has inserted; otherwise it is the most recent result of the backend that
\* inserted first (with one backend: that backend's most recent result).
C25_ContainerResult ==
    \A n \in DOMAIN document_node.page_nodes :
        LET container_result == ResultContainer_result(document_node.page_nodes[n].ocr_results)
            history == OcrContributions(n)
        IN IF history = {}
           THEN container_result = None
           ELSE container_result =
                    latest[MaxOfSet(Contributed(n, "ocr_results",
                                                latest[MinOfSet(history)].key))].value

\* two backends inserted into page 1's container, and the one that inserted
\* first inserted again after the other
C25_Witness ==
    /\ document_node # None
    /\ Len(document_node.page_nodes[1].ocr_results) = 2
    /\ OcrContributions(1) # {}
    /\ latest[MaxOfSet(OcrContributions(1))].key = latest[MinOfSet(OcrContributions(1))].key
    /\ Cardinality(OcrContributions(1)) = 3

\* C29: a page-level provider constructed without with_kwargs is called as
\* one with empty bound configuration: the call returns and the processing
\* method gets exactly the call-time keyword arguments.
C29_NoBoundConfiguration ==
    (/\ last_call.fn = "process_document_node"
     /\ last_call.self.kind \in {"page", "ocr"}
     /\ "provider_kwargs" \notin dict_keys(last_call.self.instance_dict)
     /\ (last_call.self.kind = "ocr" => last_call.task_input # Omitted)) =>
        /\ last_call.outcome.kind = "returned"
        /\ last_call.invoked # <<>>
        /\ PassedKwargs = last_call.kwargs

\* --------------------------------------------------------------------- C24
\* C24: gcp_documents_to_result_single numbers the pages of chunk k from
\* 1 plus the page counts of the chunks before it, for every list of chunk
\* results, chunk results without pages included: the merged page numbers are
\* 1, 2, ..., totalPages.
C24_MergeOffsets ==
    merge_out.fn = "gcp_documents_to_result_single" =>
        /\ merge_out.result.kind = "returned"
        /\ PageNumbers(merge_out.result) = Numbers1To(TotalPages(merge_in))

\* --------------------------------------------------------------------- C26
\* the calls that are in their last attempt: every wait of the policy is
\* behind them
LastAttempts ==
    {i \in DOMAIN futures :
        /\ futures[i].state = "RUNNING"
        /\ futures[i].retry_state.attempt_number = stop_after_attempt}

Exhausted == {i \in DOMAIN futures : futures[i].outcome.type = "RetryError"}

\* C23: once a chunk's retry budget is exhausted the operation eventually
\* ends by raising that kind of failure; every sibling call that is in flight
\* runs on until it finishes, and an operation that failed has handed no
\* chunk result to the merge step or to the caller.
C23_FailureTerminates ==
    /\ (Exhausted # {})
          ~> (pc = "done" /\ result.kind = "raised" /\ result.value.type = "RetryError")
    /\ [][\A i \in DOMAIN futures :
            futures[i].state = "RUNNING" =>
                (i \in DOMAIN futures' /\ futures'[i].state \in {"RUNNING", "FINISHED"})]_vars
    /\ [](pc = "done" => \A i \in DOMAIN futures : futures[i].state = "FINISHED")
    /\ [](pending_exc # None => (merge_arg = None /\ result.kind # "returned"))

\* the operation raised a chunk's retry error while a sibling that was never
\* collected finished with its document
C23_Witness ==
    /\ pc = "done"
    /\ result.kind = "raised"
    /\ result.value.type = "RetryError"
    /\ self_max_workers = 2
    /\ \E j \in DOMAIN futures :
          j \notin Yielded /\ futures[j].outcome.type = "Document"

\* C27: when both paths reach the merge step for the same bytes and limits,
\* the concurrent path hands it the same list of chunk results, in the same
\* order, as the sequential path, whatever the worker count and the order in
\* which the chunk calls finished.
C27_SamePathsSameList ==
    (/\ merge_arg # None
     /\ merge_out.fn = "_process_document_sync"
     /\ merge_out.result.value.type # "RetryError") =>
        /\ merge_arg.type = "list"
        /\ merge_arg.items = merge_in

\* three chunks finished out of order on two workers, and the sequential
\* path processed the same bytes
C27_Witness ==
    /\ merge_arg # None
    /\ merge_out.fn = "_process_document_sync"
    /\ Len(merge_in) = 3
    /\ self_max_workers = 2
    /\ collect_order = <<1, 0, 2>>

\* C28: the operation has returned or raised only when no submitted chunk
\* call is queued or running; after a failure was collected the rest of the
\* calls still finish, each with its own attempts.
C28_JoinBeforeReturn ==
    /\ result # NoResult => \A i \in DOMAIN futures : futures[i].state = "FINISHED"
    /\ pc = "done" =>
          \A i \in DOMAIN futures :
              futures[i].outcome.type \in {"Document", "RetryError"}

\* one worker, three chunks: the first chunk failed and was collected while
\* the other two were still queued, and the operation has raised
C28_Witness ==
    /\ pc = "done"
    /\ result.kind = "raised"
    /\ self_max_workers = 1
    /\ Len(document_byte_splits) = 3
    /\ collect_order = <<0>>
    /\ futures[1].outcome.type = "Document"
    /\ futures[2].outcome.type = "RetryError"

=============================================================================
